---- MODULE Spec2Model ----
(***************************************************************************)
(* The conversation session client of the embeddable support widget        *)
(* (widget/src/SupportWidget.tsx): the React state of the component, the   *)
(* sendMessage callback with its two suspension points (await fetch,       *)
(* await response.json()), the re-render that refreshes the values the     *)
(* callback closes over, and toggleWidget.                                 *)
(***************************************************************************)
EXTENDS Integers, Sequences, FiniteSets, TLC

(* ------------------------------ bounds --------------------------------- *)

\* accepted sendMessage invocations (requests issued) in one behaviour
MaxSends == 2

\* whitespace characters before and after the text handed to sendMessage
MaxPad == 1

\* readings of Date.now() that differ
MaxClock == 1

(* ------------------------------ values --------------------------------- *)

\* the value null of the conversationId and error state
Null == "null"

\* a field missing from the JSON body
Undefined == "undefined"

\* n whitespace characters
Pad(n) == [k \in 1..n |-> " "]

\* what the user typed between the padding: nothing, or two words
Cores == {<<>>, <<"a", " ", "a">>}

\* the texts sendMessage is called with
Texts == {Pad(i) \o c \o Pad(j) : i \in 0..MaxPad, j \in 0..MaxPad, c \in Cores}

\* data.response.content when the field is missing: no string over Chars
NoContent == <<"undefined">>

\* reply texts the server can send, the empty string among them
ReplyContents == {<<>>, <<"r">>}

\* conversation_id values of a JSON body: missing, empty string, two ids
ResponseConvIds == {Undefined, "", "c1", "c2"}

\* message_id when the field is missing or empty
NoId == [p |-> "", n |-> 0]

\* message_id values of a JSON body
ResponseMsgIds == {NoId, [p |-> "msg", n |-> 1]}

\* the nested reply object: missing, or an object with or without content
ResponseObjects ==
    {[type |-> "undefined", content |-> NoContent]}
        \cup {[type |-> "object", content |-> c] : c \in ReplyContents \cup {NoContent}}

\* what response.json() can resolve to: the JSON value null, or an object
JsonBodies ==
    {[type |-> "null", conversation_id |-> Undefined, message_id |-> NoId,
      response |-> [type |-> "undefined", content |-> NoContent]]}
        \cup [type : {"object"}, conversation_id : ResponseConvIds,
              message_id : ResponseMsgIds, response : ResponseObjects]

\* HTTP status codes of a response
Statuses == {200, 404, 500}

ErrorMessage == "Failed to send message. Please try again."

PageUrl == "window.location.href"

(* ------------------------------ state ---------------------------------- *)

VARIABLES
    isOpen,          \* useState(false)
    messages,        \* useState<Message[]>([])
    isLoading,       \* useState(false): the session's pending flag
    conversationId,  \* useState<string | null>(null)
    error,           \* useState<string | null>(null): the session's lastError
    rendered,        \* the state values of the last render, which the handlers close over
    sends,           \* the accepted invocations: request issued, position, outcome
    lastCall,        \* the sendMessage invocation made in the last step, if any
    now              \* Date.now()

vars == <<isOpen, messages, isLoading, conversationId, error, rendered, sends, lastCall, now>>

\* whether a text is empty or whitespace only
IsBlank(content) == \A k \in 1..Len(content) : content[k] = " "

\* no invocation in the last step
NoCall == [made |-> FALSE, blank |-> FALSE, accepted |-> FALSE, content |-> <<>>]

\* an invocation in the last step; the text is kept for an accepted one
Call(content, accepted) ==
    [made |-> TRUE, blank |-> IsBlank(content), accepted |-> accepted,
     content |-> IF accepted THEN content ELSE <<>>]

(* ----------------------------- helpers --------------------------------- *)

IsWhitespace(ch) == ch = " "

RECURSIVE TrimStart(_)
TrimStart(s) ==
    IF s = <<>> THEN s
    ELSE IF IsWhitespace(Head(s)) THEN TrimStart(Tail(s)) ELSE s

RECURSIVE TrimEnd(_)
TrimEnd(s) ==
    IF s = <<>> THEN s
    ELSE IF IsWhitespace(s[Len(s)]) THEN TrimEnd(SubSeq(s, 1, Len(s) - 1)) ELSE s

\* only the leading whitespace removed
TrimLeadingOnly(s) == TrimStart(s)

\* String.prototype.trim
Trim(s) == TrimEnd(TrimStart(s))

\* JavaScript truthiness of an id-like value
Truthy(v) == v \notin {Null, Undefined, ""}

\* the guard without its isLoading test
RejectsBlankOnly(content, loading) == Trim(content) = <<>>

\* the guard testing the text without trimming it
RejectsUntrimmed(content, loading) == content = <<>> \/ loading

\* line 44: if (!content.trim() || isLoading) return;
Rejects(content, loading) == Trim(content) = <<>> \/ loading

\* lines 50-55
UserMessage(content, t) ==
    [id |-> [p |-> "user", n |-> t], role |-> "user",
     content |-> Trim(content), timestamp |-> t]

\* lines 62-88: the request fetch is called with
Request(convId, content) ==
    IF ~Truthy(convId)
    THEN [kind |-> "create", id |-> Null,
          body |-> [channel |-> "widget", initial_message |-> Trim(content),
                    context |-> [page_url |-> PageUrl]]]
    ELSE [kind |-> "continue", id |-> convId,
          body |-> [content |-> Trim(content)]]

\* response.ok
Ok(status) == status \in 200..299

\* the conversation id of the response never recorded
KeepsConversationId(cur, data) == cur

\* setConversationId(data.conversation_id || null): a response without the
\* field resets the id
ResetsConversationId(cur, data) ==
    IF Truthy(data.conversation_id) THEN data.conversation_id ELSE Null

\* lines 97-99: if (data.conversation_id) setConversationId(data.conversation_id)
SaveConversationId(cur, data) ==
    IF Truthy(data.conversation_id) THEN data.conversation_id ELSE cur

\* the id generated locally whatever message_id the response carries
AssistantMessageLocalId(data, t) ==
    [id |-> [p |-> "assistant", n |-> t],
     role |-> "assistant",
     content |-> data.response.content,
     timestamp |-> t]

\* the reply built with the role of the user message above it
AssistantMessageAsUser(data, t) ==
    [id |-> IF data.message_id # NoId THEN data.message_id
            ELSE [p |-> "assistant", n |-> t],
     role |-> "user",
     content |-> data.response.content,
     timestamp |-> t]

\* lines 102-107
AssistantMessage(data, t) ==
    [id |-> IF data.message_id # NoId THEN data.message_id
            ELSE [p |-> "assistant", n |-> t],
     role |-> "assistant",
     content |-> data.response.content,
     timestamp |-> t]

\* setMessages([m]): the transcript replaced, not extended
ReplaceMessages(prev, m) == <<m>>

\* setMessages(prev => [...prev, m])
AppendMessage(prev, m) == Append(prev, m)

\* what a render captures
Snapshot(open, loading, convId) ==
    [isOpen |-> open, isLoading |-> loading, conversationId |-> convId]

(* ------------------------------- Init ---------------------------------- *)

Init ==
    /\ isOpen = FALSE
    /\ messages = <<>>
    /\ isLoading = FALSE
    /\ conversationId = Null
    /\ error = Null
    /\ rendered = Snapshot(FALSE, FALSE, Null)
    /\ sends = <<>>
    /\ lastCall = NoCall
    /\ now = 0

(* ------------------------------ actions -------------------------------- *)

\* sendMessage with setError(null) left out
SendMessageKeepsError(content) ==
    /\ lastCall' = Call(content, ~Rejects(content, rendered.isLoading))
    /\ IF Rejects(content, rendered.isLoading)
       THEN UNCHANGED <<isOpen, messages, isLoading, conversationId, error,
                        rendered, sends, now>>
       ELSE /\ Len(sends) < MaxSends
            /\ isLoading' = TRUE
            /\ messages' = AppendMessage(messages, UserMessage(content, now))
            /\ sends' = Append(sends,
                   [request |-> Request(rendered.conversationId, content),
                    pc |-> "fetch", result |-> "none", reply |-> "none"])
            /\ UNCHANGED <<isOpen, conversationId, error, rendered, now>>

\* lines 43-88: sendMessage up to its first suspension point
SendMessage(content) ==
    /\ lastCall' = Call(content, ~Rejects(content, rendered.isLoading))
    /\ IF Rejects(content, rendered.isLoading)
       THEN UNCHANGED <<isOpen, messages, isLoading, conversationId, error,
                        rendered, sends, now>>
       ELSE /\ Len(sends) < MaxSends
            /\ error' = Null
            /\ isLoading' = TRUE
            /\ messages' = AppendMessage(messages, UserMessage(content, now))
            /\ sends' = Append(sends,
                   [request |-> Request(rendered.conversationId, content),
                    pc |-> "fetch", result |-> "none", reply |-> "none"])
            /\ UNCHANGED <<isOpen, conversationId, rendered, now>>

\* the catch block with setIsLoading(false) left out
CatchKeepsLoading(i, kind, shape) ==
    /\ error' = ErrorMessage
    /\ isLoading' = isLoading
    /\ sends' = [sends EXCEPT ![i].pc = "done", ![i].result = kind, ![i].reply = shape]

\* the catch block with setError left out
CatchWithoutError(i, kind, shape) ==
    /\ error' = error
    /\ isLoading' = FALSE
    /\ sends' = [sends EXCEPT ![i].pc = "done", ![i].result = kind, ![i].reply = shape]

\* the catch block issuing the failed request again
CatchRetries(i, kind, shape) ==
    /\ error' = ErrorMessage
    /\ isLoading' = FALSE
    /\ sends' = Append(
           [sends EXCEPT ![i].pc = "done", ![i].result = kind, ![i].reply = shape],
           [request |-> sends[i].request, pc |-> "fetch", result |-> "none",
            reply |-> "none"])

\* no try block: the exception leaves sendMessage as a rejected promise
CatchEscapes(i, kind, shape) ==
    /\ error' = error
    /\ isLoading' = isLoading
    /\ sends' = [sends EXCEPT ![i].pc = "rejected", ![i].result = kind,
                              ![i].reply = shape]

\* the catch block showing the cause: setError(err.message)
CatchLeaksCause(i, kind, shape) ==
    /\ error' = kind
    /\ isLoading' = FALSE
    /\ sends' = [sends EXCEPT ![i].pc = "done", ![i].result = kind, ![i].reply = shape]

\* lines 110-115: catch and finally
Catch(i, kind, shape) ==
    /\ error' = ErrorMessage
    /\ isLoading' = FALSE
    /\ sends' = [sends EXCEPT ![i].pc = "done", ![i].result = kind, ![i].reply = shape]

\* line 64/79: the fetch promise rejects
FetchRejects(i) ==
    /\ sends[i].pc = "fetch"
    /\ Catch(i, "network", "none")
    /\ lastCall' = NoCall
    /\ UNCHANGED <<isOpen, messages, conversationId, rendered, now>>

\* lines 90-94: the fetch promise resolves with a response
FetchResolves(i, status) ==
    /\ sends[i].pc = "fetch"
    /\ lastCall' = NoCall
    /\ IF ~Ok(status)
       THEN /\ Catch(i, "status", "none")
            /\ UNCHANGED <<isOpen, messages, conversationId, rendered, now>>
       ELSE /\ sends' = [sends EXCEPT ![i].pc = "json"]
            /\ UNCHANGED <<isOpen, messages, isLoading, conversationId, error,
                           rendered, now>>

\* line 94: response.json() rejects
JsonRejects(i) ==
    /\ sends[i].pc = "json"
    /\ Catch(i, "parse", "none")
    /\ lastCall' = NoCall
    /\ UNCHANGED <<isOpen, messages, conversationId, rendered, now>>

\* the shape of the reply in a JSON body, kept with the send it answers
ReplyShape(data) ==
    IF data.type = "null" THEN "nobody"
    ELSE IF data.response.type # "object" THEN "missing"
    ELSE IF data.response.content = NoContent THEN "nocontent"
    ELSE "content"

\* setIsLoading(false) in the catch block instead of a finally block: the
\* path that appends the assistant message does not release isLoading
JsonResolvesKeepsLoading(i, data) ==
    /\ sends[i].pc = "json"
    /\ lastCall' = NoCall
    /\ IF data.type = "null"
       THEN /\ Catch(i, "malformed", ReplyShape(data))
            /\ UNCHANGED <<isOpen, messages, conversationId, rendered, now>>
       ELSE IF data.response.type # "object"
       THEN /\ conversationId' = SaveConversationId(conversationId, data)
            /\ Catch(i, "malformed", ReplyShape(data))
            /\ UNCHANGED <<isOpen, messages, rendered, now>>
       ELSE /\ conversationId' = SaveConversationId(conversationId, data)
            /\ messages' = AppendMessage(messages, AssistantMessage(data, now))
            /\ sends' = [sends EXCEPT ![i].pc = "done", ![i].result = "success",
                                      ![i].reply = ReplyShape(data)]
            /\ UNCHANGED <<isOpen, isLoading, error, rendered, now>>

\* lines 94-115: response.json() resolves with data
JsonResolves(i, data) ==
    /\ sends[i].pc = "json"
    /\ lastCall' = NoCall
    /\ IF data.type = "null"
       THEN \* line 97 throws: data.conversation_id of null
            /\ Catch(i, "malformed", ReplyShape(data))
            /\ UNCHANGED <<isOpen, messages, conversationId, rendered, now>>
       ELSE IF data.response.type # "object"
       THEN \* line 105 throws, after line 98 has run
            /\ conversationId' = SaveConversationId(conversationId, data)
            /\ Catch(i, "malformed", ReplyShape(data))
            /\ UNCHANGED <<isOpen, messages, rendered, now>>
       ELSE /\ conversationId' = SaveConversationId(conversationId, data)
            /\ messages' = AppendMessage(messages, AssistantMessage(data, now))
            /\ isLoading' = FALSE
            /\ sends' = [sends EXCEPT ![i].pc = "done", ![i].result = "success",
                                      ![i].reply = ReplyShape(data)]
            /\ UNCHANGED <<isOpen, error, rendered, now>>

\* React re-renders the component: the handlers now close over the current state
Render ==
    /\ rendered # Snapshot(isOpen, isLoading, conversationId)
    /\ rendered' = Snapshot(isOpen, isLoading, conversationId)
    /\ lastCall' = NoCall
    /\ UNCHANGED <<isOpen, messages, isLoading, conversationId, error, sends, now>>

\* toggleWidget also abandoning the requests in flight
ToggleWidgetAborts ==
    /\ isOpen' = ~rendered.isOpen
    /\ isLoading' = FALSE
    /\ sends' = [i \in DOMAIN sends |->
                   IF sends[i].pc = "done" THEN sends[i]
                   ELSE [sends[i] EXCEPT !.pc = "done", !.result = "network"]]
    /\ lastCall' = NoCall
    /\ UNCHANGED <<messages, conversationId, error, rendered, now>>

\* lines 130-132
ToggleWidget ==
    /\ isOpen' = ~rendered.isOpen
    /\ lastCall' = NoCall
    /\ UNCHANGED <<messages, isLoading, conversationId, error, rendered, sends, now>>

\* the clock advances
Tick ==
    /\ now < MaxClock
    /\ now' = now + 1
    /\ lastCall' = NoCall
    /\ UNCHANGED <<isOpen, messages, isLoading, conversationId, error, rendered, sends>>

Next ==
    \/ \E content \in Texts : SendMessage(content)
    \/ \E i \in 1..Len(sends) : FetchRejects(i)
    \/ \E i \in 1..Len(sends) : \E status \in Statuses : FetchResolves(i, status)
    \/ \E i \in 1..Len(sends) : JsonRejects(i)
    \/ \E i \in 1..Len(sends) : \E data \in JsonBodies : JsonResolves(i, data)
    \/ Render

\* the session client: sends, responses and re-renders, within one reading of
\* the clock and with the chat window left alone (Tick changes now alone and
\* ToggleWidget isOpen alone; now is read only for message ids and timestamps)
Spec == Init /\ [][Next]_vars

NextClock ==
    \/ Next
    \/ Tick

\* the session client with the clock advancing between its steps
SpecClock == Init /\ [][NextClock]_vars

NextVisible ==
    \/ Next
    \/ ToggleWidget

\* the session client with the chat window being opened and closed
SpecVisible == Init /\ [][NextVisible]_vars

\* every request issued settles: the promise of fetch resolves or rejects, and
\* the promise of response.json() of a response that arrived does too
Settles ==
    \A i \in 1..MaxSends :
        /\ WF_vars(i \in DOMAIN sends
                      /\ (FetchRejects(i) \/ \E status \in Statuses : FetchResolves(i, status)))
        /\ WF_vars(i \in DOMAIN sends
                      /\ (JsonRejects(i) \/ \E data \in JsonBodies : JsonResolves(i, data)))

\* the session client whose requests all settle and whose state updates are
\* followed by the re-render React schedules for them
SpecLive == Spec /\ Settles /\ WF_vars(Render)

(* ------------------------------ claims --------------------------------- *)

\* the outcomes in which the catch block ran
Failures == {"network", "status", "parse", "malformed"}

\* the accepted invocations whose request has not completed
InFlight == {i \in DOMAIN sends : sends[i].pc # "done"}

\* this step is a sendMessage invocation that was accepted
AcceptedStep == Len(sends') = Len(sends) + 1

\* this step completes the accepted invocation i
Completes(i) == sends[i].pc # "done" /\ sends'[i].pc = "done"

IsPrefix(s, t) == Len(s) <= Len(t) /\ SubSeq(t, 1, Len(s)) = s

\* C1: at most one request is in flight at any time, also when two
\* invocations are made before the component has re-rendered.
SingleFlight == Cardinality(InFlight) <= 1

\* C2: a sendMessage invocation that observes isLoading true issues no
\* request and leaves messages, conversationId, isLoading and error as they were.
PendingCallIsNoOp ==
    [][(lastCall'.made /\ rendered.isLoading)
        => UNCHANGED <<messages, conversationId, isLoading, error, sends>>]_vars

\* C2 witness: a call with a non-blank text was turned down while a request
\* was in flight and the callback saw isLoading true.
PendingCallWitness ==
    /\ lastCall.made /\ ~lastCall.blank /\ ~lastCall.accepted
    /\ rendered.isLoading /\ isLoading
    /\ InFlight # {}

\* C3: an accepted sendMessage issues a create request exactly when
\* conversationId is absent at the call, and otherwise a continue request
\* addressed to the session's conversationId.
RoutingInvariant ==
    [][AcceptedStep =>
        LET r == sends'[Len(sends')].request
        IN  /\ r.kind = "create" <=> conversationId = Null
            /\ r.kind = "continue" => r.id = conversationId]_vars

\* C4: once conversationId is set, no later step changes it.
IdImmutable ==
    [][conversationId # Null => conversationId' = conversationId]_vars

\* C5: in every step the old value of messages is a prefix of the new one.
AppendOnly == [][IsPrefix(messages, messages')]_vars

\* C5 witness: the user message of a send that failed and the two messages
\* of a send that succeeded are all in the transcript.
AppendOnlyWitness ==
    /\ Len(sends) = 2
    /\ sends[1].result = "network"
    /\ sends[2].result = "success"
    /\ Len(messages) = 3
    /\ messages[1].role = "user"

\* C6: the step that completes an accepted invocation, on any path,
\* leaves isLoading false.
PendingRelease ==
    [][\A i \in DOMAIN sends : Completes(i) => isLoading' = FALSE]_vars

\* C6 witness: invocations have completed by a parse failure and by a
\* malformed body, and isLoading is false.
PendingReleaseWitness ==
    /\ Len(sends) = 2
    /\ sends[1].result = "parse"
    /\ sends[2].result = "malformed"
    /\ ~isLoading

\* C7: a sendMessage invocation with an empty or whitespace-only text
\* issues no request and changes nothing of the session.
BlankCallIsNoOp ==
    [][(lastCall'.made /\ lastCall'.blank)
        => UNCHANGED <<messages, conversationId, isLoading, error, sends>>]_vars

\* C7 witness: a blank call was made in a session that holds the error of
\* an earlier failure.
BlankCallWitness ==
    /\ lastCall.made /\ lastCall.blank
    /\ error = ErrorMessage
    /\ Len(messages) = 1

\* C8: an accepted send appends exactly its user message, and when its
\* request fails by network error or non-2xx status the completing step adds
\* no message, keeps conversationId, sets error and clears isLoading; from a
\* fresh session that is 1 message, no conversationId, error set.
TransportFailure ==
    [][/\ AcceptedStep =>
            /\ Len(messages') = Len(messages) + 1
            /\ IsPrefix(messages, messages')
            /\ messages'[Len(messages')].role = "user"
       /\ \A i \in DOMAIN sends :
            (Completes(i) /\ sends'[i].result \in {"network", "status"}) =>
                /\ messages' = messages
                /\ conversationId' = conversationId
                /\ error' = ErrorMessage
                /\ isLoading' = FALSE
                /\ Len(sends) = 1 =>
                      /\ Len(messages') = 1
                      /\ messages'[1].role = "user"
                      /\ conversationId' = Null]_vars

\* C8 witness: the create request of a fresh session failed by a network error.
TransportFailureWitness ==
    /\ Len(sends) = 1
    /\ sends[1].request.kind = "create"
    /\ sends[1].result = "network"
    /\ Len(messages) = 1
    /\ error = ErrorMessage

\* C9: a send that ends in failure leaves conversationId as it was before
\* the send, also when a 2xx body carries a conversation_id but no reply object.
FailureKeepsConversationId ==
    [][\A i \in DOMAIN sends :
        (Completes(i) /\ sends'[i].result \in Failures)
            => conversationId' = conversationId]_vars

\* C10: a 2xx body whose reply object is absent, or present without content,
\* ends the send as a failure: error is set and no assistant message is appended.
MissingReplyIsFailure ==
    [][\A i \in DOMAIN sends :
        (Completes(i) /\ sends'[i].reply \in {"missing", "nocontent"})
            => (error' = ErrorMessage /\ messages' = messages)]_vars

\* C11: a 2xx create response without conversation_id is a failure, so a
\* transcript that holds an assistant message belongs to a session whose
\* conversationId is present.
AssistantImpliesConversationId ==
    (\E k \in DOMAIN messages : messages[k].role = "assistant")
        => conversationId # Null

\* u is t without its leading and trailing whitespace
IsTrimOf(u, t) ==
    /\ u = <<>> \/ (u[1] # " " /\ u[Len(u)] # " ")
    /\ \E i \in 0..Len(t) : \E j \in 0..Len(t) : t = Pad(i) \o u \o Pad(j)

\* a JSON body with a conversation id and a reply text
WellFormed(data) ==
    /\ data.type = "object"
    /\ data.conversation_id \in {"c1", "c2"}
    /\ data.response.type = "object"
    /\ data.response.content # NoContent

\* C12: the first accepted send of a fresh session issues one create request
\* with channel widget, the trimmed text and the page URL; when it is the only
\* send and a well-formed 2xx body arrives, messages is (user, assistant),
\* conversationId is the id of the body, error is absent, isLoading is false.
FirstExchange ==
    [][/\ (AcceptedStep /\ Len(sends) = 0) =>
            /\ Len(sends') = 1
            /\ sends'[1].request.kind = "create"
            /\ sends'[1].request.body.channel = "widget"
            /\ IsTrimOf(sends'[1].request.body.initial_message, lastCall'.content)
            /\ sends'[1].request.body.context.page_url = PageUrl
       /\ (Len(sends) = 1 /\ sends[1].pc = "json" /\ sends'[1].pc = "done") =>
          \A data \in JsonBodies :
            (WellFormed(data) /\ JsonResolves(1, data)) =>
                /\ Len(messages') = 2
                /\ messages'[1].role = "user"
                /\ messages'[2].role = "assistant"
                /\ messages'[2].content = data.response.content
                /\ conversationId' = data.conversation_id
                /\ error' = Null
                /\ isLoading' = FALSE]_vars

\* C12 witness: the only send of the session was answered by a well-formed body.
FirstExchangeWitness ==
    /\ Len(sends) = 1
    /\ sends[1].request.kind = "create"
    /\ sends[1].result = "success"
    /\ sends[1].reply = "content"
    /\ conversationId = "c1"
    /\ Len(messages) = 2

\* C13: with conversationId set, an accepted send issues one continue request
\* addressed to that id whose body carries only content, the trimmed text; a
\* reply adds exactly the assistant message after the user message, so two
\* successful exchanges from a fresh session leave 4 messages.
SubsequentExchange ==
    [][/\ (AcceptedStep /\ conversationId # Null) =>
            LET r == sends'[Len(sends')].request
            IN  /\ Len(messages') = Len(messages) + 1
                /\ r.kind = "continue"
                /\ r.id = conversationId
                /\ DOMAIN r.body = {"content"}
                /\ IsTrimOf(r.body.content, lastCall'.content)
       /\ \A i \in DOMAIN sends :
            (Completes(i) /\ sends'[i].result = "success") =>
                /\ Len(messages') = Len(messages) + 1
                /\ messages'[Len(messages')].role = "assistant"
       /\ (Len(sends') = 2 /\ \A i \in DOMAIN sends' : sends'[i].result = "success")
            => Len(messages') = 4]_vars

\* C14: an accepted invocation issues exactly one request, a rejected one
\* none, and no other step issues or re-issues a request.
AtMostOneAttempt ==
    [][/\ (lastCall'.made /\ lastCall'.accepted) =>
            /\ Len(sends') = Len(sends) + 1
            /\ SubSeq(sends', 1, Len(sends)) = sends
       /\ (lastCall'.made /\ ~lastCall'.accepted) => sends' = sends
       /\ ~lastCall'.made =>
            /\ Len(sends') = Len(sends)
            /\ \A i \in DOMAIN sends : sends'[i].request = sends[i].request]_vars

\* C14 witness: after a request failed, a further call was turned down and
\* the failed request is still the only one issued.
AtMostOneAttemptWitness ==
    /\ Len(sends) = 1
    /\ sends[1].result = "network"
    /\ lastCall.made /\ ~lastCall.accepted

\* C15: when every request issued so far has failed, the next accepted
\* send issues a create request again.
RetryIsCreate ==
    [][(AcceptedStep /\ \A i \in DOMAIN sends : sends[i].result \in Failures)
        => sends'[Len(sends')].request.kind = "create"]_vars

\* C16: user messages are appended in the order of the accepted invocations,
\* and the assistant message of a send is appended before the user message of
\* any later send.
OrderingGuarantee ==
    [][/\ AcceptedStep =>
            /\ Len(messages') = Len(messages) + 1
            /\ IsPrefix(messages, messages')
            /\ messages'[Len(messages')].role = "user"
       /\ \A i \in DOMAIN sends :
            (Completes(i) /\ Len(messages') > Len(messages)) =>
                /\ IsPrefix(messages, messages')
                /\ messages'[Len(messages')].role = "assistant"
                /\ i = Len(sends)]_vars

\* C17: whatever the outcome of the request, an invocation leaving an await
\* goes on to the next await or completes, never ends as a rejected promise,
\* and every failing outcome completes with error set and isLoading false.
ErrorContainment ==
    [][\A i \in DOMAIN sends :
        sends'[i].pc # sends[i].pc =>
            /\ sends'[i].pc \in {"json", "done"}
            /\ sends'[i].pc = "done" => sends'[i].result \in Failures \cup {"success"}
            /\ sends'[i].result \in Failures =>
                  (error' = ErrorMessage /\ isLoading' = FALSE)]_vars

\* C17 witness: one send ended by a non-2xx status and one by a body
\* that is the JSON value null, both with the error set.
ErrorContainmentWitness ==
    /\ Len(sends) = 2
    /\ sends[1].result = "status"
    /\ sends[2].result = "malformed" /\ sends[2].reply = "nobody"
    /\ error = ErrorMessage
    /\ ~isLoading

\* C18: opening or closing the window changes nothing of the session and of
\* the requests in flight, and whatever the window's state every request in
\* flight can still be answered and its response applied.
VisibilityIndependent ==
    /\ [][isOpen' # isOpen
            => UNCHANGED <<messages, conversationId, isLoading, error, sends>>]_vars
    /\ [](\A i \in DOMAIN sends :
            /\ sends[i].pc = "fetch" =>
                  (ENABLED FetchRejects(i) /\ ENABLED FetchResolves(i, 200))
            /\ sends[i].pc = "json" =>
                  (ENABLED JsonRejects(i)
                     /\ \A data \in JsonBodies : ENABLED JsonResolves(i, data)))

\* C18 witness: the window was opened and then closed again, not yet
\* re-rendered, in a session whose send has had its reply applied.
VisibilityWitness ==
    /\ ~isOpen /\ rendered.isOpen
    /\ Len(sends) = 1
    /\ sends[1].result = "success"
    /\ Len(messages) = 2

\* C19: an accepted invocation leaves error absent when its request is
\* issued; a rejected invocation leaves error as it was.
ErrorClearedOnSend ==
    [][/\ (lastCall'.made /\ lastCall'.accepted) => (AcceptedStep /\ error' = Null)
       /\ (lastCall'.made /\ ~lastCall'.accepted) => error' = error]_vars

\* C19 witness: a send was accepted after the previous one had failed, and
\* the error of that failure is gone.
ErrorClearedWitness ==
    /\ lastCall.made /\ lastCall.accepted
    /\ Len(sends) = 2
    /\ sends[1].result = "network"
    /\ sends[2].pc = "fetch"
    /\ error = Null

\* the text a request carries
RequestText(r) ==
    IF r.kind = "create" THEN r.body.initial_message ELSE r.body.content

\* C20: when a request has just been issued, the user message of that send
\* is the last entry of messages and its content is the text of the request
\* body, the trimmed input.
OptimisticAppend ==
    (lastCall.made /\ lastCall.accepted) =>
        /\ Len(messages) >= 1 /\ Len(sends) >= 1
        /\ sends[Len(sends)].pc = "fetch"
        /\ messages[Len(messages)].role = "user"
        /\ messages[Len(messages)].content = RequestText(sends[Len(sends)].request)
        /\ IsTrimOf(messages[Len(messages)].content, lastCall.content)

\* C20 witness: a continue request was just issued for a text with
\* whitespace on both sides.
OptimisticAppendWitness ==
    /\ lastCall.made /\ lastCall.accepted
    /\ lastCall.content = <<" ", "a", " ", "a", " ">>
    /\ sends[Len(sends)].request.kind = "continue"

\* C21: isLoading is true exactly while a request issued by an accepted
\* send has not completed, and it changes only from false to true in the step
\* that issues a request and from true to false in a step that completes one.
PendingMirrorsLifecycle ==
    /\ [](isLoading <=> InFlight # {})
    /\ [][/\ (~isLoading /\ isLoading') => AcceptedStep
          /\ (isLoading /\ ~isLoading') => \E i \in DOMAIN sends : Completes(i)]_vars

\* C22: every request in flight completes, isLoading that is true becomes
\* false again, and a state is reached again and again in which the callback
\* sees isLoading false, so that a further send is accepted.
EventualRelease ==
    /\ \A i \in 1..MaxSends :
          (i \in DOMAIN sends /\ sends[i].pc # "done")
              ~> (i \in DOMAIN sends /\ sends[i].pc = "done")
    /\ isLoading ~> ~isLoading
    /\ []<>(~isLoading /\ ~rendered.isLoading)

\* C22 witness: after a send failed and the component re-rendered, a further
\* send was accepted and its request is in flight.
EventualReleaseWitness ==
    /\ Len(sends) = 2
    /\ sends[1].pc = "done" /\ sends[1].result = "status"
    /\ sends[2].pc = "fetch"
    /\ lastCall.made /\ lastCall.accepted
    /\ rendered.isLoading = FALSE /\ isLoading

\* C23: all entries of messages have pairwise distinct ids, also when two
\* user messages are created at the same reading of the clock.
UniqueMessageIds ==
    \A k \in DOMAIN messages : \A l \in DOMAIN messages :
        k # l => messages[k].id # messages[l].id

\* C24: every entry of messages has a content that is present and not the
\* empty string.
NonEmptyContent ==
    \A k \in DOMAIN messages :
        messages[k].content # NoContent /\ messages[k].content # <<>>

\* C25: the step that applies the response of a send and extends messages
\* appends exactly one message, with role assistant, the reply content of that
\* response, and as id the message_id of the response when it carries one and
\* otherwise an id generated locally from the clock.
AssistantFromResponse ==
    [][\A i \in DOMAIN sends :
        (messages' # messages /\ Completes(i)) =>
          \A data \in JsonBodies :
            JsonResolves(i, data) =>
            /\ sends'[i].result = "success"
            /\ Len(messages') = Len(messages) + 1
            /\ IsPrefix(messages, messages')
            /\ LET m == messages'[Len(messages')]
               IN  /\ m.role = "assistant"
                   /\ m.content = data.response.content
                   /\ data.message_id # NoId => m.id = data.message_id
                   /\ data.message_id = NoId =>
                         m.id = [p |-> "assistant", n |-> now]]_vars

\* C25 witness: one reply was appended under the id the server gave it and
\* one under a locally generated id.
AssistantFromResponseWitness ==
    /\ Len(messages) = 4
    /\ messages[2].role = "assistant" /\ messages[2].id = [p |-> "msg", n |-> 1]
    /\ messages[2].content = <<"r">>
    /\ messages[4].role = "assistant" /\ messages[4].id.p = "assistant"

\* C26: error is absent or the one fixed message, and a send that fails sets
\* it to that same message whatever the kind of failure, so that the value of
\* error does not tell the kinds of failure apart.
CauseHiding ==
    /\ [](error \in {Null, ErrorMessage})
    /\ [][\A i \in DOMAIN sends : \A kind \in Failures :
            (Completes(i) /\ sends'[i].result = kind) => error' = ErrorMessage]_vars

\* C26 witness: two sends failed for different reasons, a network error and
\* an unparsable body, and error holds the fixed message.
CauseHidingWitness ==
    /\ Len(sends) = 2
    /\ sends[1].result = "network"
    /\ sends[2].result = "parse"
    /\ error = ErrorMessage

\* C28: conversationId changes only in a step that applies the body of a
\* 2xx response to a request of this session, and only to the conversation_id
\* that body carries; once present it is never absent again.
ConversationIdProvenance ==
    [][/\ conversationId' # conversationId =>
            \E i \in DOMAIN sends : \E data \in JsonBodies :
                /\ sends[i].pc = "json"
                /\ JsonResolves(i, data)
                /\ data.type = "object"
                /\ data.conversation_id \in {"c1", "c2"}
                /\ conversationId' = data.conversation_id
       /\ conversationId # Null => conversationId' # Null
       /\ \A i \in DOMAIN sends :
            (sends[i].pc = "fetch" /\ sends'[i].pc # "fetch")
                => conversationId' = conversationId]_vars

\* C28 witness: the id taken from the first response addressed the second
\* request and is still the session's id after the second response was applied.
ConversationIdProvenanceWitness ==
    /\ Len(sends) = 2
    /\ sends[1].result = "success"
    /\ sends[2].result = "success"
    /\ sends[2].request.kind = "continue" /\ sends[2].request.id = "c2"
    /\ conversationId = "c2"
    /\ Len(messages) = 4

\* the entries of messages with a given role
WithRole(role) == {k \in DOMAIN messages : messages[k].role = role}

\* C29: the user messages are as many as the accepted invocations, the
\* assistant messages as many as the sends that completed without failure, so
\* never more than the user messages, and the first message is a user message.
TranscriptAccounting ==
    /\ Cardinality(WithRole("user")) = Len(sends)
    /\ Cardinality(WithRole("assistant"))
          = Cardinality({i \in DOMAIN sends :
                            sends[i].pc = "done" /\ sends[i].result \notin Failures})
    /\ Cardinality(WithRole("assistant")) <= Cardinality(WithRole("user"))
    /\ messages # <<>> => messages[1].role = "user"

\* C29 witness: two user messages and the reply to the first, while the
\* second request is still in flight.
TranscriptAccountingWitness ==
    /\ Len(messages) = 3
    /\ messages[2].role = "user"
    /\ messages[3].role = "assistant"
    /\ sends[1].result = "success"
    /\ sends[2].pc = "json"

\* C30: a step that completes a send and leaves the session idle leaves
\* error set exactly when that send failed; before any send error is absent.
IdleErrorReflectsLastSend ==
    /\ [](sends = <<>> => error = Null)
    /\ [][\A i \in DOMAIN sends :
            (Completes(i) /\ InFlight' = {} /\ ~isLoading')
                => (error' # Null <=> sends'[i].result \in Failures)]_vars

====
